---- MODULE Spec2Model ----
(***************************************************************************)
(* Model of thonny/running.py: the _BackendProxy that supervises the       *)
(* backend process (send_command, _kill_current_process,                   *)
(* _start_new_process, fetch_next_message) and the reader threads          *)
(* _listen_stdout and _listen_stderr that each started process gets.       *)
(*                                                                         *)
(* Threads: the callers of send_command, two reader threads per started    *)
(* process, the consumer that polls fetch_next_message, and the backend    *)
(* processes themselves (which write lines to their stdout and may exit).  *)
(***************************************************************************)
EXTENDS Integers, Sequences, FiniteSets, TLC

\* ------------------------------------------------------------------ bounds
\* how many backend processes may be started in one run of the model
MaxGen == 2
\* how many lines all backend processes together may write to stdout
MaxEmit == 2
\* how many send_command calls may be made in one run of the model
MaxSends == 2
\* the same, in the specification of one Run after another (RunSpec)
MaxEmitRun == 3
\* longest queue the coalescing specification starts from
MaxLen == 3
\* how many unread lines a backend process may have on its stderr
MaxErr == 1

\* threads that call send_command: 1 is the UI thread, from which Runner makes
\* all its calls; 2 is another thread calling send_command concurrently
UIThread == {1}
Callers == {1, 2}
Gens == 1..MaxGen

\* ---------------------------------------------------------------- values
\* self._proc = None (running.py:204); a started process is named by its
\* generation 1, 2, ...
NoProc == 0
\* a field a message does not carry
Absent == "-"
\* self._message_queue = None (running.py:206)
NoQueue == [exists |-> FALSE, items |-> <<>>]
\* collections.deque() (running.py:275)
EmptyDeque == [exists |-> TRUE, items |-> <<>>]

\* Messages of the backend, as parse_message returns them. gen and seq are not
\* fields of the program: they record which process wrote the message, and as
\* which line of all the lines written.
Msg(t, s, d, c, g) ==
    [message_type |-> t, stream_name |-> s, data |-> d, cwd |-> c, gen |-> g,
     seq |-> 0]
NoMsg == Msg(Absent, Absent, <<>>, Absent, NoProc)

\* A line on a stdout pipe: well-formed lines parse to their message.
Line(m) == [wellformed |-> TRUE, msg |-> m]
BadLine(g) == [wellformed |-> FALSE, msg |-> Msg(Absent, Absent, <<>>, Absent, g)]
NoLine == [wellformed |-> FALSE, msg |-> NoMsg]

\* line l, written as the n-th line of the run
Written(l, n) == [l EXCEPT !.msg.seq = n]

\* the lines a backend process of generation g may write
WorkerLines(g) ==
    { Line(Msg("Output", "stdout", <<"a">>, Absent, g)),
      Line(Msg("ToplevelResult", Absent, <<>>, "/x", g)),
      Line(Msg("DebuggerProgress", Absent, <<>>, "/y", g)),
      Line(Msg("InputRequest", Absent, <<>>, Absent, g)),
      BadLine(g) }

\* thonny.common.parse_message: fails on a line that is not well-formed
parse_message(line) ==
    IF line.wellformed THEN [ok |-> TRUE, msg |-> line.msg]
    ELSE [ok |-> FALSE, msg |-> NoMsg]

\* Commands (thonny.common): kind is the class, command the command name
Cmd(k, c, f) == [kind |-> k, command |-> c, filename |-> f]
NoCmd == Cmd(Absent, Absent, Absent)
Commands ==
    { Cmd("ToplevelCommand", "Run", "a.py"),
      Cmd("ToplevelCommand", "Debug", "a.py"),
      Cmd("ToplevelCommand", "Reset", Absent),
      Cmd("ToplevelCommand", "cd", Absent),
      Cmd("DebuggerCommand", "step", Absent),
      Cmd("InputSubmission", Absent, Absent),
      Cmd("InlineCommand", "tkupdate", Absent) }

\* ----------------------------------------------------------------- state
VARIABLES
    state,          \* self._state
    proc,           \* self._proc: NoProc or the generation of the process
    message_queue,  \* self._message_queue
    cwd,            \* self.cwd
    lock,           \* self._state_lock: 0 when free, else the caller holding it
    procStatus,     \* per generation: "unborn", "alive", "killed", "exited"
    argv,           \* per generation: the filename argument it was started with
    origin,         \* per generation: the command that started it and the state
                    \* send_command found when it took the lock
    stdout,         \* per generation: lines written to stdout, not yet read
    stdin,          \* per generation: lines flushed to its stdin
    stdinBuf,       \* per generation: lines written to proc.stdin, not yet flushed
    cpc,            \* per caller: where it is in send_command
    ccmd,           \* per caller: the command it is sending
    cerr,           \* per caller: the exception its last send_command raised
    cprior,         \* per caller: the state its send_command found
    readers,        \* per generation: its _listen_stdout thread
    fetched,        \* what the last fetch_next_message returned
    emitted,        \* lines written by backend processes so far
    sends,          \* send_command calls made so far
    stderr,         \* per generation: lines written to stderr, not yet read
    ereaders        \* per generation: its _listen_stderr thread

vars == <<state, proc, message_queue, cwd, lock, procStatus, argv, origin, stdout, stdin,
          stdinBuf, cpc, ccmd, cerr, cprior, readers, fetched, emitted, sends,
          stderr, ereaders>>

procVars == <<procStatus, argv, origin, stdout>>
callerVars == <<cpc, ccmd, cerr, cprior, sends>>
errVars == <<stderr, ereaders>>

\* a process that has not been started
NoOrigin == [cmd |-> NoCmd, prior |-> Absent]

\* a reader thread that has not been started
NoReader == [pc |-> "unborn", src |-> NoProc, line |-> NoLine]

\* a _listen_stderr thread that has not been started
NoErrReader == [pc |-> "unborn", src |-> NoProc, line |-> Absent]

\* _BackendProxy.__init__ (running.py:197-207)
Init ==
    /\ state = "None"
    /\ proc = NoProc
    /\ message_queue = NoQueue
    /\ cwd = "~"
    /\ lock = 0
    /\ procStatus = [g \in Gens |-> "unborn"]
    /\ argv = [g \in Gens |-> Absent]
    /\ origin = [g \in Gens |-> NoOrigin]
    /\ stdout = [g \in Gens |-> <<>>]
    /\ stdin = [g \in Gens |-> <<>>]
    /\ stdinBuf = [g \in Gens |-> <<>>]
    /\ cpc = [c \in Callers |-> "idle"]
    /\ ccmd = [c \in Callers |-> NoCmd]
    /\ cerr = [c \in Callers |-> "none"]
    /\ cprior = [c \in Callers |-> Absent]
    /\ readers = [g \in Gens |-> NoReader]
    /\ fetched = NoMsg
    /\ emitted = 0
    /\ sends = 0
    /\ stderr = [g \in Gens |-> <<>>]
    /\ ereaders = [g \in Gens |-> NoErrReader]


\* ------------------------------------------------------- fetch_next_message
\* the loop without the appendleft of running.py:229: the message that ends
\* the run is lost
RECURSIVE CoalesceDropsNext(_, _)
CoalesceDropsNext(msg, q) ==
    IF Len(q) = 0
    THEN [msg |-> msg, rest |-> q]
    ELSE LET next_msg == Head(q) IN
         IF /\ next_msg.message_type = "Output"
            /\ next_msg.stream_name = msg.stream_name
         THEN CoalesceDropsNext([msg EXCEPT !.data = @ \o next_msg.data], Tail(q))
         ELSE [msg |-> msg, rest |-> Tail(q)]

\* the loop without the stream_name test of running.py:225
RECURSIVE CoalesceAnyStream(_, _)
CoalesceAnyStream(msg, q) ==
    IF Len(q) = 0
    THEN [msg |-> msg, rest |-> q]
    ELSE LET next_msg == Head(q) IN
         IF next_msg.message_type = "Output"
         THEN CoalesceAnyStream([msg EXCEPT !.data = @ \o next_msg.data], Tail(q))
         ELSE [msg |-> msg, rest |-> q]

\* the coalescing loop (running.py:219-230): msg is the Output message held,
\* q what is left of the queue
RECURSIVE Coalesce(_, _)
Coalesce(msg, q) ==
    IF Len(q) = 0
    THEN [msg |-> msg, rest |-> q]
    ELSE LET next_msg == Head(q) IN
         IF /\ next_msg.message_type = "Output"
            /\ next_msg.stream_name = msg.stream_name
         THEN Coalesce([msg EXCEPT !.data = @ \o next_msg.data], Tail(q))
         ELSE [msg |-> msg, rest |-> q]

\* fetch_next_message (running.py:209-233) on queue mq: what it returns
\* (NoMsg for None) and the queue it leaves
fetch_next_message(mq) ==
    IF ~mq.exists \/ Len(mq.items) = 0
    THEN [msg |-> NoMsg, queue |-> mq]
    ELSE LET msg == Head(mq.items) IN
         IF msg.message_type = "Output"
         THEN LET r == Coalesce(msg, Tail(mq.items)) IN
              [msg |-> r.msg, queue |-> [mq EXCEPT !.items = r.rest]]
         ELSE [msg |-> msg, queue |-> [mq EXCEPT !.items = Tail(mq.items)]]

\* Runner._poll_vm_messages calls fetch_next_message (running.py:182), on the
\* UI thread, between its send_command calls
Fetch ==
    /\ \A c \in UIThread : cpc[c] = "idle"
    /\ LET r == fetch_next_message(message_queue) IN
         /\ fetched' = r.msg
         /\ message_queue' = r.queue
    /\ UNCHANGED <<state, proc, cwd, lock, procVars, stdin, stdinBuf, callerVars,
                   readers, emitted,
                   errVars>>

\* ------------------------------------------------------------ send_command
\* send_command without the lock
LockFreeUnguarded(c) == TRUE

\* with self._state_lock (running.py:239): caller c may enter
LockFree(c) == lock = 0

\* every command sets the state to "running"
SetsRunningAnyCommand(cmd) == TRUE

\* the commands that set the state to "running" (running.py:240-243)
SetsRunning(cmd) ==
    cmd.kind \in {"ToplevelCommand", "DebuggerCommand", "InputSubmission"}

\* every ToplevelCommand replaces the backend process
RestartsAnyToplevel(cmd) == cmd.kind = "ToplevelCommand"

\* the commands that replace the backend process (running.py:245)
Restarts(cmd) ==
    cmd.kind = "ToplevelCommand" /\ cmd.command \in {"Run", "Debug", "Reset"}

\* _set_state (running.py:262-265)
set_state(old, new) == IF old # new THEN new ELSE old

\* _kill_current_process without the poll() test of running.py:269
KillWithoutPoll(p, q, st) ==
    IF p # NoProc
    THEN [proc |-> NoProc, queue |-> NoQueue, status |-> [st EXCEPT ![p] = "killed"]]
    ELSE [proc |-> p, queue |-> q, status |-> st]

\* _kill_current_process (running.py:268-272) on process handle p, queue q and
\* process table st: the three after the call
kill_current_process(p, q, st) ==
    IF p # NoProc /\ st[p] = "alive"
    THEN [proc |-> NoProc, queue |-> NoQueue, status |-> [st EXCEPT ![p] = "killed"]]
    ELSE [proc |-> p, queue |-> q, status |-> st]

\* the generation the next started process gets
NextGen == Cardinality({g \in Gens : procStatus[g] # "unborn"}) + 1

\* the filename argument of the backend's command line (running.py:294-295)
FilenameArg(cmd) == cmd.filename

\* the exception leaves the with block: the lock is released
Raise(c, e) ==
    /\ cerr' = [cerr EXCEPT ![c] = e]
    /\ cpc' = [cpc EXCEPT ![c] = "idle"]
    /\ ccmd' = [ccmd EXCEPT ![c] = NoCmd]
    /\ cprior' = [cprior EXCEPT ![c] = Absent]
    /\ lock' = 0

\* restarts called for and not yet carried out
PendingRestarts ==
    Cardinality({c \in Callers : cpc[c] \in {"lock", "kill", "start"}
                                 /\ Restarts(ccmd[c])})

\* send_command is called (running.py:235-237); the caller then waits for
\* the lock
SendCall(c, cmd) ==
    /\ cpc[c] = "idle"
    /\ sends < MaxSends
    /\ Restarts(cmd) => NextGen + PendingRestarts <= MaxGen
    /\ sends' = sends + 1
    /\ ccmd' = [ccmd EXCEPT ![c] = cmd]
    /\ cerr' = [cerr EXCEPT ![c] = "none"]
    /\ cpc' = [cpc EXCEPT ![c] = "lock"]
    /\ UNCHANGED <<state, proc, message_queue, cwd, lock, procVars, stdin,
                   stdinBuf, cprior, readers, fetched, emitted,
                   errVars>>

\* running.py:239-243: take the lock, set the state
SendAcquire(c) ==
    /\ cpc[c] = "lock"
    /\ LockFree(c)
    /\ lock' = c
    /\ cprior' = [cprior EXCEPT ![c] = state]
    /\ state' = IF SetsRunning(ccmd[c]) THEN set_state(state, "running") ELSE state
    /\ cpc' = [cpc EXCEPT ![c] = IF Restarts(ccmd[c]) THEN "kill" ELSE "write"]
    /\ UNCHANGED <<proc, message_queue, cwd, procVars, stdin, stdinBuf, readers,
                   fetched, emitted, ccmd, cerr, sends,
                   errVars>>

\* running.py:246
SendKill(c) ==
    /\ cpc[c] = "kill"
    /\ LET k == kill_current_process(proc, message_queue, procStatus) IN
         /\ proc' = k.proc
         /\ message_queue' = k.queue
         /\ procStatus' = k.status
    /\ cpc' = [cpc EXCEPT ![c] = "start"]
    /\ UNCHANGED <<state, cwd, lock, argv, origin, stdout, stdin, stdinBuf, ccmd,
                   cerr, cprior, sends, readers, fetched, emitted,
                   errVars>>

\* running.py:247, _start_new_process (running.py:274-313) when Popen succeeds
SendStartOk(c) ==
    /\ cpc[c] = "start"
    /\ NextGen <= MaxGen
    /\ LET g == NextGen IN
         /\ message_queue' = EmptyDeque
         /\ proc' = g
         /\ procStatus' = [procStatus EXCEPT ![g] = "alive"]
         /\ argv' = [argv EXCEPT ![g] = FilenameArg(ccmd[c])]
         /\ origin' = [origin EXCEPT ![g] = [cmd |-> ccmd[c], prior |-> cprior[c]]]
         /\ readers' = [readers EXCEPT ![g] = [NoReader EXCEPT !.pc = "eval"]]
         /\ ereaders' = [ereaders EXCEPT ![g] = [NoErrReader EXCEPT !.pc = "eval"]]
    /\ cpc' = [cpc EXCEPT ![c] = "write"]
    /\ UNCHANGED <<state, cwd, lock, stdout, stdin, stdinBuf, ccmd, cerr, cprior,
                   sends, fetched, emitted,
                   stderr>>

\* _start_new_process when subprocess.Popen raises (running.py:275, 301)
SendStartFail(c) ==
    /\ cpc[c] = "start"
    /\ message_queue' = EmptyDeque
    /\ Raise(c, "LaunchError")
    /\ UNCHANGED <<state, proc, cwd, procVars, stdin, stdinBuf, sends,
                   readers, fetched, emitted,
                   errVars>>

\* running.py:249: self._proc.stdin.write
SendWrite(c) ==
    /\ cpc[c] = "write"
    /\ IF proc = NoProc
       THEN /\ Raise(c, "AttributeError")
            /\ UNCHANGED stdinBuf
       ELSE /\ stdinBuf' = [stdinBuf EXCEPT ![proc] = Append(@, ccmd[c])]
            /\ cpc' = [cpc EXCEPT ![c] = "flush"]
            /\ UNCHANGED <<cerr, ccmd, cprior, lock>>
    /\ UNCHANGED <<state, proc, message_queue, cwd, procVars, stdin, sends,
                   readers, fetched, emitted,
                   errVars>>

\* running.py:250: self._proc.stdin.flush, then the with block ends
SendFlush(c) ==
    /\ cpc[c] = "flush"
    /\ IF proc = NoProc
       THEN /\ Raise(c, "AttributeError")
            /\ UNCHANGED <<stdin, stdinBuf>>
       ELSE IF procStatus[proc] # "alive"
       THEN /\ Raise(c, "BrokenPipeError")
            /\ UNCHANGED <<stdin, stdinBuf>>
       ELSE /\ stdin' = [stdin EXCEPT ![proc] = @ \o stdinBuf[proc]]
            /\ stdinBuf' = [stdinBuf EXCEPT ![proc] = <<>>]
            /\ cpc' = [cpc EXCEPT ![c] = "idle"]
            /\ ccmd' = [ccmd EXCEPT ![c] = NoCmd]
            /\ cprior' = [cprior EXCEPT ![c] = Absent]
            /\ lock' = 0
            /\ UNCHANGED cerr
    /\ UNCHANGED <<state, proc, message_queue, cwd, procVars, sends,
                   readers, fetched, emitted,
                   errVars>>

\* ----------------------------------------------------------- _listen_stdout
\* the cwd taken from ToplevelResult messages only
CwdAfterToplevelOnly(old, msg) ==
    IF msg.cwd # Absent /\ msg.message_type = "ToplevelResult" THEN msg.cwd ELSE old

\* running.py:325-326
CwdAfter(old, msg) == IF msg.cwd # Absent THEN msg.cwd ELSE old

\* every message sets the state, one of another type to the name of its type
StateAfterAnyType(old, msg) ==
    IF msg.message_type = "ToplevelResult"
    THEN set_state(old, "waiting_toplevel_command")
    ELSE IF msg.message_type = "DebuggerProgress"
    THEN set_state(old, "waiting_debug_command")
    ELSE IF msg.message_type = "InputRequest"
    THEN set_state(old, "waiting_input")
    ELSE set_state(old, msg.message_type)

\* running.py:330-335
StateAfter(old, msg) ==
    IF msg.message_type = "ToplevelResult"
    THEN set_state(old, "waiting_toplevel_command")
    ELSE IF msg.message_type = "DebuggerProgress"
    THEN set_state(old, "waiting_debug_command")
    ELSE IF msg.message_type = "InputRequest"
    THEN set_state(old, "waiting_input")
    ELSE old

\* the pipe whose readline the reader calls (running.py:319): self._proc at
\* the time of the call
ReadSource == proc

\* running.py:319: the reader evaluates self._proc.stdout
ReadEval(r) ==
    /\ readers[r].pc = "eval"
    /\ readers' = [readers EXCEPT ![r] =
                     IF ReadSource = NoProc
                     THEN [@ EXCEPT !.pc = "crashed"]
                     ELSE [@ EXCEPT !.pc = "readline", !.src = ReadSource]]
    /\ UNCHANGED <<state, proc, message_queue, cwd, lock, procVars, stdin,
                   stdinBuf, callerVars, fetched, emitted,
                   errVars>>

\* running.py:319-322: readline returns a line, or '' at end of stream
ReadLine(r) ==
    /\ readers[r].pc = "readline"
    /\ LET s == readers[r].src IN
         IF stdout[s] # <<>>
         THEN /\ readers' = [readers EXCEPT ![r] =
                               [@ EXCEPT !.pc = "parse", !.line = Head(stdout[s])]]
              /\ stdout' = [stdout EXCEPT ![s] = Tail(@)]
         ELSE /\ procStatus[s] # "alive"
              /\ readers' = [readers EXCEPT ![r] = [@ EXCEPT !.pc = "done"]]
              /\ UNCHANGED stdout
    /\ UNCHANGED <<state, proc, message_queue, cwd, lock, procStatus, argv, origin,
                   stdin, stdinBuf, callerVars, fetched, emitted,
                   errVars>>

\* running.py:324-326: parse the line, take its cwd
ReadParse(r) ==
    /\ readers[r].pc = "parse"
    /\ LET p == parse_message(readers[r].line) IN
         IF p.ok
         THEN /\ cwd' = CwdAfter(cwd, p.msg)
              /\ readers' = [readers EXCEPT ![r] = [@ EXCEPT !.pc = "append"]]
         ELSE /\ readers' = [readers EXCEPT ![r] =
                               [@ EXCEPT !.pc = "crashed", !.line = NoLine]]
              /\ UNCHANGED cwd
    /\ UNCHANGED <<state, proc, message_queue, lock, procVars, stdin, stdinBuf,
                   callerVars, fetched, emitted,
                   errVars>>

\* the lock's owner while reader r is inside its `with` block
ReaderId(r) == 0 - r

\* a reader that leaves the block without releasing the lock
LockKeptAfterAppend(r) == ReaderId(r)

\* running.py:328-335: leaving the `with` block releases the lock
LockAfterAppend(r) == 0

\* running.py:328: the reader enters `with self._state_lock`
ReadAcquire(r) ==
    /\ readers[r].pc = "append"
    /\ lock = 0
    /\ lock' = ReaderId(r)
    /\ readers' = [readers EXCEPT ![r] = [@ EXCEPT !.pc = "locked"]]
    /\ UNCHANGED <<state, proc, message_queue, cwd, procVars, stdin, stdinBuf,
                   callerVars, fetched, emitted,
                   errVars>>

\* running.py:329-335: under the lock, append to the queue and set the state
ReadAppend(r) ==
    /\ readers[r].pc = "locked"
    /\ lock = ReaderId(r)
    /\ LET msg == readers[r].line.msg IN
         IF message_queue.exists
         THEN /\ message_queue' = [message_queue EXCEPT !.items = Append(@, msg)]
              /\ state' = StateAfter(state, msg)
              /\ lock' = LockAfterAppend(r)
              /\ readers' = [readers EXCEPT ![r] =
                               [@ EXCEPT !.pc = "eval", !.line = NoLine]]
         ELSE /\ readers' = [readers EXCEPT ![r] =
                               [@ EXCEPT !.pc = "crashed", !.line = NoLine]]
              /\ lock' = 0
              /\ UNCHANGED <<message_queue, state>>
    /\ UNCHANGED <<proc, cwd, procVars, stdin, stdinBuf, callerVars,
                   fetched, emitted,
                   errVars>>

\* ----------------------------------------------------------- _listen_stderr
\* running.py:340: the reader evaluates self._proc.stderr
ErrEval(r) ==
    /\ ereaders[r].pc = "eval"
    /\ ereaders' = [ereaders EXCEPT ![r] =
                      IF ReadSource = NoProc
                      THEN [@ EXCEPT !.pc = "crashed"]
                      ELSE [@ EXCEPT !.pc = "readline", !.src = ReadSource]]
    /\ UNCHANGED <<state, proc, message_queue, cwd, lock, procVars, stdin,
                   stdinBuf, callerVars, readers, fetched, emitted, stderr>>

\* running.py:340-342: readline returns a line, or '' at end of stream
ErrReadLine(r) ==
    /\ ereaders[r].pc = "readline"
    /\ LET s == ereaders[r].src IN
         IF stderr[s] # <<>>
         THEN /\ ereaders' = [ereaders EXCEPT ![r] =
                                [@ EXCEPT !.pc = "debug", !.line = Head(stderr[s])]]
              /\ stderr' = [stderr EXCEPT ![s] = Tail(@)]
         ELSE /\ procStatus[s] # "alive"
              /\ ereaders' = [ereaders EXCEPT ![r] = [@ EXCEPT !.pc = "done"]]
              /\ UNCHANGED stderr
    /\ UNCHANGED <<state, proc, message_queue, cwd, lock, procVars, stdin,
                   stdinBuf, callerVars, readers, fetched, emitted>>

\* the line is appended to the inbox as Output of the stream stderr
DebugAppendsOutput(q, l) ==
    IF q.exists
    THEN [q EXCEPT !.items = Append(@, Msg("Output", "stderr", <<l>>, Absent, NoProc))]
    ELSE q

\* running.py:344: debug(...) writes the line to the log; the queue is as it was
AfterDebug(q, l) == q

\* running.py:343-344: the line goes to the debug log, and nowhere else
ErrDebug(r) ==
    /\ ereaders[r].pc = "debug"
    /\ message_queue' = AfterDebug(message_queue, ereaders[r].line)
    /\ ereaders' = [ereaders EXCEPT ![r] = [@ EXCEPT !.pc = "eval", !.line = Absent]]
    /\ UNCHANGED <<state, proc, cwd, lock, procVars, stdin,
                   stdinBuf, callerVars, readers, fetched, emitted, stderr>>

\* ------------------------------------------------------ the backend process
\* the backend writes a line to its stdout (at most max lines in all)
Emit(g, l, max) ==
    /\ procStatus[g] = "alive"
    /\ emitted < max
    /\ stdout' = [stdout EXCEPT ![g] = Append(@, Written(l, emitted + 1))]
    /\ emitted' = emitted + 1
    /\ UNCHANGED <<state, proc, message_queue, cwd, lock, procStatus, argv, origin,
                   stdin, stdinBuf, callerVars, readers, fetched,
                   errVars>>

WorkerEmit(g, l) == Emit(g, l, MaxEmit)

\* the backend writes a line to its stderr (at most MaxErr lines unread)
WorkerEmitErr(g) ==
    /\ procStatus[g] = "alive"
    /\ Len(stderr[g]) < MaxErr
    /\ stderr' = [stderr EXCEPT ![g] = Append(@, "Traceback")]
    /\ UNCHANGED <<state, proc, message_queue, cwd, lock, procVars, stdin,
                   stdinBuf, callerVars, readers, fetched, emitted, ereaders>>

\* the backend exits on its own
WorkerExit(g) ==
    /\ procStatus[g] = "alive"
    /\ procStatus' = [procStatus EXCEPT ![g] = "exited"]
    /\ UNCHANGED <<state, proc, message_queue, cwd, lock, argv, origin, stdout,
                   stdin, stdinBuf, callerVars, readers, fetched, emitted,
                   errVars>>

\* ------------------------------------------------------------ specification
Next ==
    \/ \E c \in UIThread, cmd \in Commands : SendCall(c, cmd)
    \/ \E c \in UIThread : SendAcquire(c)
    \/ \E c \in UIThread : SendKill(c)
    \/ \E c \in UIThread : SendStartOk(c)
    \/ \E c \in UIThread : SendStartFail(c)
    \/ \E c \in UIThread : SendWrite(c)
    \/ \E c \in UIThread : SendFlush(c)
    \/ \E r \in Gens : ReadEval(r)
    \/ \E r \in Gens : ReadLine(r)
    \/ \E r \in Gens : ReadParse(r)
    \/ \E r \in Gens : ReadAcquire(r)
    \/ \E r \in Gens : ReadAppend(r)
    \/ \E g \in Gens : \E l \in WorkerLines(g) : WorkerEmit(g, l)
    \/ \E g \in Gens : WorkerExit(g)
    \/ Fetch

Spec == Init /\ [][Next]_vars

\* every started thread keeps running: a reader thread takes its next step
\* when it can, a send_command that was called runs to its end
Fairness ==
    /\ \A r \in Gens :
         /\ WF_vars(ReadEval(r))
         /\ WF_vars(ReadLine(r))
         /\ WF_vars(ReadParse(r))
         /\ WF_vars(ReadAcquire(r))
         /\ WF_vars(ReadAppend(r))
    /\ \A c \in UIThread :
         /\ WF_vars(SendAcquire(c))
         /\ WF_vars(SendKill(c))
         /\ WF_vars(SendStartOk(c) \/ SendStartFail(c))
         /\ WF_vars(SendWrite(c))
         /\ WF_vars(SendFlush(c))

\* the UI thread sends Run commands only, and does not poll the inbox
RunCmd == Cmd("ToplevelCommand", "Run", "a.py")
WorkerEmitRun(g, l) == Emit(g, l, MaxEmitRun)

NextRun ==
    \/ \E c \in UIThread : SendCall(c, RunCmd)
    \/ \E c \in UIThread : SendAcquire(c)
    \/ \E c \in UIThread : SendKill(c)
    \/ \E c \in UIThread : SendStartOk(c)
    \/ \E c \in UIThread : SendStartFail(c)
    \/ \E c \in UIThread : SendWrite(c)
    \/ \E c \in UIThread : SendFlush(c)
    \/ \E r \in Gens : ReadEval(r)
    \/ \E r \in Gens : ReadLine(r)
    \/ \E r \in Gens : ReadParse(r)
    \/ \E r \in Gens : ReadAcquire(r)
    \/ \E r \in Gens : ReadAppend(r)
    \/ \E g \in Gens : \E l \in WorkerLines(g) : WorkerEmitRun(g, l)

RunSpec == Init /\ [][NextRun]_vars /\ Fairness

\* the line of the ToplevelResult that ends a program
ResultLine(g) == Line(Msg("ToplevelResult", Absent, <<>>, "/x", g))

\* one Run after another, with both reader threads of every process running
\* and the backend writing to stdout and to stderr
NextErr ==
    \/ \E c \in UIThread : SendCall(c, RunCmd)
    \/ \E c \in UIThread : SendAcquire(c)
    \/ \E c \in UIThread : SendKill(c)
    \/ \E c \in UIThread : SendStartOk(c)
    \/ \E c \in UIThread : SendStartFail(c)
    \/ \E c \in UIThread : SendWrite(c)
    \/ \E c \in UIThread : SendFlush(c)
    \/ \E r \in Gens : ReadEval(r)
    \/ \E r \in Gens : ReadLine(r)
    \/ \E r \in Gens : ReadParse(r)
    \/ \E r \in Gens : ReadAcquire(r)
    \/ \E r \in Gens : ReadAppend(r)
    \/ \E r \in Gens : ErrEval(r)
    \/ \E r \in Gens : ErrReadLine(r)
    \/ \E r \in Gens : ErrDebug(r)
    \/ \E g \in Gens : WorkerEmit(g, ResultLine(g))
    \/ \E g \in Gens : WorkerEmitErr(g)

SpecErr == Init /\ [][NextErr]_vars

\* send_command called from two threads at once; the backend may exit
NextSenders ==
    \/ \E c \in Callers, cmd \in Commands : SendCall(c, cmd)
    \/ \E c \in Callers : SendAcquire(c)
    \/ \E c \in Callers : SendKill(c)
    \/ \E c \in Callers : SendStartOk(c)
    \/ \E c \in Callers : SendStartFail(c)
    \/ \E c \in Callers : SendWrite(c)
    \/ \E c \in Callers : SendFlush(c)
    \/ \E g \in Gens : WorkerExit(g)

SpecSenders == Init /\ [][NextSenders]_vars

\* fetch_next_message alone, polled on every queue of up to MaxLen messages
FetchMsgs ==
    { Msg("Output", "stdout", <<"a">>, Absent, NoProc),
      Msg("Output", "stdout", <<"b">>, Absent, NoProc),
      Msg("Output", "stderr", <<"c">>, Absent, NoProc),
      Msg("ToplevelResult", Absent, <<>>, "/x", NoProc),
      Msg("DebuggerProgress", Absent, <<>>, Absent, NoProc) }

Queues ==
    UNION { [1..n -> FetchMsgs] : n \in 0..MaxLen }

InitFetch ==
    /\ message_queue \in {NoQueue} \cup { [exists |-> TRUE, items |-> q] : q \in Queues }
    /\ state = "None"
    /\ proc = NoProc
    /\ cwd = "~"
    /\ lock = 0
    /\ procStatus = [g \in Gens |-> "unborn"]
    /\ argv = [g \in Gens |-> Absent]
    /\ origin = [g \in Gens |-> NoOrigin]
    /\ stdout = [g \in Gens |-> <<>>]
    /\ stdin = [g \in Gens |-> <<>>]
    /\ stdinBuf = [g \in Gens |-> <<>>]
    /\ cpc = [c \in Callers |-> "idle"]
    /\ ccmd = [c \in Callers |-> NoCmd]
    /\ cerr = [c \in Callers |-> "none"]
    /\ cprior = [c \in Callers |-> Absent]
    /\ readers = [g \in Gens |-> NoReader]
    /\ fetched = NoMsg
    /\ emitted = 0
    /\ sends = 0
    /\ stderr = [g \in Gens |-> <<>>]
    /\ ereaders = [g \in Gens |-> NoErrReader]

NextFetch == Fetch

SpecFetch == InitFetch /\ [][NextFetch]_vars

\* ------------------------------------------------------------------ claims
\* the messages in the inbox
Inbox == message_queue.items
InboxGens == { Inbox[i].gen : i \in 1..Len(Inbox) }

\* C1: restart discards stale messages: while a backend process is current,
\* every message in the inbox was written by that process; a message of a
\* killed or replaced process is never in the inbox made for its successor.
C1_NoStaleMessageInInbox ==
    proc # NoProc => \A g \in InboxGens : g = proc

\* C2: a reader never registers a state transition of a process generation that
\* was torn down: whenever a reader's append changes the state, the message
\* it applies was written by the current process.
C2_NoStaleTransition ==
    [][\A r \in Gens :
         (readers[r].pc = "locked" /\ readers'[r].pc = "eval" /\ state' # state)
         => readers[r].line.msg.gen = proc]_vars

\* C3: single-writer serialization: the sections of two send_command calls
\* never overlap, and a line written to the live current process and not yet
\* flushed is the one line of the caller that holds the lock and is about to
\* flush it: no other call writes, kills or restarts in between.
C3_SingleWriter ==
    /\ \A c, d \in Callers :
         (c # d /\ cpc[c] \notin {"idle", "lock"}) => cpc[d] \in {"idle", "lock"}
    /\ \A c \in Callers : cpc[c] \notin {"idle", "lock"} => lock = c
    /\ \A g \in Gens :
         (procStatus[g] = "alive" /\ stdinBuf[g] # <<>>)
         => /\ g = proc
            /\ \E c \in Callers :
                 cpc[c] = "flush" /\ lock = c /\ stdinBuf[g] = <<ccmd[c]>>

\* a caller is about to flush its line while the other caller waits for the lock
C3_Witness ==
    \E c, d \in Callers :
        /\ cpc[c] = "flush" /\ cpc[d] = "lock"
        /\ proc # NoProc /\ stdinBuf[proc] = <<ccmd[c]>>

\* q[1..k] are Output messages of one stream
IsRun(q, k) ==
    \A i \in 1..k :
        q[i].message_type = "Output" /\ q[i].stream_name = q[1].stream_name

\* the length of the longest such run at the head of q
RunLen(q) ==
    CHOOSE k \in 1..Len(q) : IsRun(q, k) /\ (k = Len(q) \/ ~IsRun(q, k + 1))

\* the data of q[i..k], in order
RECURSIVE DataOf(_, _, _)
DataOf(q, i, k) == IF i > k THEN <<>> ELSE q[i].data \o DataOf(q, i + 1, k)

\* a step in which fetch_next_message took messages from the inbox
FetchTook == Len(Inbox') < Len(Inbox)

\* C4: output coalescing: a fetch that pops an Output message returns one
\* Output whose data is the data of the longest run of Output messages of that
\* stream at the head, in order; the run is removed, the message after it
\* stays at the head and is the one the next call starts from.
C4_OutputCoalescing ==
    [][(FetchTook /\ Head(Inbox).message_type = "Output") =>
         LET k == RunLen(Inbox) IN
           /\ fetched' = [Head(Inbox) EXCEPT !.data = DataOf(Inbox, 1, k)]
           /\ Inbox' = SubSeq(Inbox, k + 1, Len(Inbox))
           /\ k < Len(Inbox) =>
                LET nxt == fetch_next_message(message_queue').msg IN
                  /\ nxt.message_type = Inbox[k + 1].message_type
                  /\ nxt.stream_name = Inbox[k + 1].stream_name
                  /\ SubSeq(nxt.data, 1, Len(Inbox[k + 1].data)) = Inbox[k + 1].data
      ]_vars

\* two stdout Outputs were returned as one, the ToplevelResult after them waits
C4_Witness ==
    /\ fetched.message_type = "Output"
    /\ fetched.data = <<"a", "b">>
    /\ Inbox # <<>>
    /\ Head(Inbox).message_type = "ToplevelResult"

\* C5: stream separation: a fetch consumes only Output messages of the stream
\* of the message it returns, leaves the rest of the queue as it was, and
\* returns a message that is not an Output as it is, alone.
C5_StreamSeparation ==
    [][FetchTook =>
         LET n == Len(Inbox) - Len(Inbox') IN
           /\ Inbox' = SubSeq(Inbox, n + 1, Len(Inbox))
           /\ fetched'.message_type = Head(Inbox).message_type
           /\ fetched'.stream_name = Head(Inbox).stream_name
           /\ Head(Inbox).message_type # "Output" => (n = 1 /\ fetched' = Head(Inbox))
           /\ \A i \in 2..n :
                /\ Inbox[i].message_type = "Output"
                /\ Inbox[i].stream_name = fetched'.stream_name
      ]_vars

\* an stdout Output was returned alone, the stderr Output after it waits
C5_Witness ==
    /\ fetched.message_type = "Output"
    /\ fetched.stream_name = "stdout"
    /\ Inbox # <<>>
    /\ Head(Inbox).message_type = "Output"
    /\ Head(Inbox).stream_name = "stderr"

\* a ToplevelResult of process g waits in its stdout pipe
ResultWritten(g) ==
    \E i \in 1..Len(stdout[g]) :
        stdout[g][i].wellformed /\ stdout[g][i].msg.message_type = "ToplevelResult"

\* process g was started by Run a.py, sent in state waiting_toplevel_command
StartedByRun(g) ==
    /\ origin[g].cmd = RunCmd
    /\ origin[g].prior = "waiting_toplevel_command"

\* the send_command of a Run, at its write: the state is "running", the
\* process is new, was started with the filename, and is the only one alive
C6_RunReplacesWorker ==
    \A c \in Callers :
        (cpc[c] = "write" /\ ccmd[c] = RunCmd
         /\ proc # NoProc)
        => /\ state = "running"
           /\ argv[proc] = "a.py"
           /\ stdin[proc] = <<>>
           /\ \A g \in Gens : procStatus[g] = "alive" => g = proc

\* C6: end-to-end Run: once the process started by a Run sent in state
\* waiting_toplevel_command has written a ToplevelResult, the state becomes
\* waiting_toplevel_command (unless the process is replaced first).
C6_RunEndToEnd ==
    \A g \in Gens :
        (proc = g /\ StartedByRun(g) /\ ResultWritten(g))
        ~> (state = "waiting_toplevel_command" \/ proc # g)

\* caller c takes the lock in this step (running.py:239-243)
Acquires(c) == cpc[c] = "lock" /\ cpc'[c] # "lock"

\* caller c takes a step of its send_command
Steps(c) == cpc[c] # "idle" /\ cpc'[c] # cpc[c]

\* C7: sending a ToplevelCommand, DebuggerCommand or InputSubmission sets the
\* state to "running", whatever it was; nothing else sets it to "running";
\* no step of sending an InlineCommand changes the state, the process or the
\* inbox.
C7_OnlyCommandsSetRunning ==
    [][/\ \A c \in Callers :
            /\ (Acquires(c) /\ ccmd[c].kind \in
                    {"ToplevelCommand", "DebuggerCommand", "InputSubmission"})
               => state' = "running"
            /\ (Steps(c) /\ ccmd[c].kind = "InlineCommand")
               => UNCHANGED <<state, proc, procStatus, message_queue>>
       /\ (state' = "running" /\ state # "running")
          => \E c \in Callers :
                 Acquires(c) /\ ccmd[c].kind \in
                    {"ToplevelCommand", "DebuggerCommand", "InputSubmission"}
      ]_vars

\* an InputSubmission sent in state waiting_input has set the state to running
C7_Witness ==
    \E c \in Callers :
        /\ cpc[c] = "write"
        /\ ccmd[c].kind = "InputSubmission"
        /\ cprior[c] = "waiting_input"
        /\ state = "running"

\* reader r parses a well-formed line in this step (running.py:324-326)
Parses(r) == readers[r].pc = "parse" /\ readers'[r].pc = "append"

\* C8: cwd propagation: a parsed message that carries a cwd sets the tracked
\* cwd to it, whatever its message_type; one without a cwd leaves the tracked
\* cwd as it was; nothing else changes the tracked cwd.
C8_CwdPropagation ==
    [][/\ \A r \in Gens :
            Parses(r) =>
              LET m == readers[r].line.msg IN
                IF m.cwd # Absent THEN cwd' = m.cwd ELSE cwd' = cwd
       /\ cwd' # cwd => \E r \in Gens : Parses(r)
      ]_vars

\* the cwd of a DebuggerProgress message is the tracked cwd
C8_Witness ==
    /\ cwd = "/y"
    /\ \E r \in Gens :
         /\ readers[r].pc = "append"
         /\ readers[r].line.msg.message_type = "DebuggerProgress"
         /\ readers[r].line.msg.cwd = "/y"

\* caller c runs _kill_current_process in this step (running.py:246)
Kills(c) == cpc[c] = "kill" /\ cpc'[c] = "start"

\* C9: kill_current is idempotent: with no process, or one that has exited,
\* it changes nothing; with a live process it kills it and drops the process
\* handle and the inbox; a second kill right after the first changes nothing.
C9_KillIdempotent ==
    [][\A c \in Callers :
         Kills(c) =>
           /\ IF proc # NoProc /\ procStatus[proc] = "alive"
              THEN /\ proc' = NoProc
                   /\ message_queue' = NoQueue
                   /\ procStatus' = [procStatus EXCEPT ![proc] = "killed"]
              ELSE UNCHANGED <<proc, message_queue, procStatus>>
           /\ kill_current_process(proc', message_queue', procStatus')
                = [proc |-> proc', queue |-> message_queue', status |-> procStatus']
      ]_vars

\* a live process started with a.py has just been killed, its inbox dropped
C9_Witness ==
    /\ \E c \in Callers : cpc[c] = "start"
    /\ proc = NoProc
    /\ message_queue = NoQueue
    /\ \E g \in Gens : procStatus[g] = "killed" /\ argv[g] = "a.py"

\* C10: a failed launch leaves no dangling generation: after send_command
\* raised the launch error there is no inbox without a process handle, and
\* the state is not "running".
C10_LaunchFailureLeavesNoGeneration ==
    \A c \in Callers :
        cerr[c] = "LaunchError" =>
            /\ message_queue.exists => proc # NoProc
            /\ state # "running"

\* C11: one bad line is not fatal: a reader that meets a line that is not a
\* well-formed message keeps running (it goes on to read the next line), so
\* later well-formed lines are still parsed, appended and applied.
C11_BadLineNotFatal ==
    [][\A r \in Gens :
         (readers[r].pc = "parse" /\ ~parse_message(readers[r].line).ok)
            => readers'[r].pc \in {"parse", "eval"}
      ]_vars

\* a step in which reader r evaluates self._proc to find the pipe to read
ReadsProc(r) == readers[r].pc = "eval" /\ readers'[r].pc # "eval"

\* a step in which the error reader r evaluates self._proc
ErrReadsProc(r) == ereaders[r].pc = "eval" /\ ereaders'[r].pc # "eval"

\* a step in which reader r appends to the inbox and sets the state
Appends(r) == readers[r].pc = "locked" /\ readers'[r].pc # "locked"

\* a step in which fetch_next_message pops messages off the inbox
FetchPops ==
    message_queue.exists /\ message_queue'.exists /\ Len(Inbox') < Len(Inbox)

\* C12: every access to the process handle, the inbox and the state is made
\* by a thread that holds the lock: the steps of send_command, the appends of
\* the readers, the readers' reads of the process handle, and the pops of
\* fetch_next_message (called by the UI thread).
C12_AccessUnderLock ==
    [][/\ \A c \in Callers : Steps(c) => lock' = c \/ lock = c
       /\ \A r \in Gens : Appends(r) => lock = ReaderId(r)
       /\ \A r \in Gens : ReadsProc(r) => lock = ReaderId(r)
       /\ \A r \in Gens : ErrReadsProc(r) => lock = ReaderId(r)
       /\ FetchPops => lock \in UIThread
      ]_vars

\* C13: readers are bound to their own generation: a reader reads only the
\* pipes of the process it was started with, so the stdout of the current
\* process never has two output readers.
C13_ReaderBoundToGeneration ==
    /\ \A r \in Gens :
         readers[r].pc \in {"readline", "parse", "append", "locked"}
            => readers[r].src = r
    /\ \A r \in Gens : ereaders[r].pc \in {"readline", "debug"} => ereaders[r].src = r
    /\ \A r, q \in Gens :
         (readers[r].pc = "readline" /\ readers[q].pc = "readline"
            /\ readers[r].src = proc /\ readers[q].src = proc) => r = q

\* C14: in-order delivery: the messages of one process are in the inbox in
\* the order in which the process wrote them (stated for messages of
\* different types, whose order the consumer can see), so that polling
\* returns them in that order.
C14_InOrderDelivery ==
    \A i, j \in 1..Len(Inbox) :
        (/\ i < j
         /\ Inbox[i].gen = Inbox[j].gen
         /\ Inbox[i].message_type # Inbox[j].message_type)
            => Inbox[i].seq < Inbox[j].seq

\* a step of send_command that returns normally
Returns(c) == cpc[c] = "flush" /\ cpc'[c] = "idle" /\ cerr'[c] = "none"

\* C15: only Run, Debug and Reset (ToplevelCommands) replace the backend
\* process: no step of sending any other command changes the process handle,
\* the processes or the inbox, and when it returns its line is the one line
\* added, to the stdin of the process that was there; and the process handle
\* and the inbox reference change in steps of sending Run, Debug or Reset only.
C15_OnlyRestartCommandsReplace ==
    [][/\ \A c \in Callers :
            (Steps(c) /\ ~(ccmd[c].kind = "ToplevelCommand"
                           /\ ccmd[c].command \in {"Run", "Debug", "Reset"}))
               => /\ UNCHANGED <<proc, procStatus, argv, message_queue>>
                  /\ Returns(c) =>
                       stdin' = [stdin EXCEPT ![proc] = Append(@, ccmd[c])]
                  /\ ~Returns(c) => stdin' = stdin
       /\ (proc' # proc \/ message_queue'.exists # message_queue.exists)
            => \E c \in Callers :
                 /\ Steps(c)
                 /\ ccmd[c].kind = "ToplevelCommand"
                 /\ ccmd[c].command \in {"Run", "Debug", "Reset"}
      ]_vars

\* a cd command has been written to the process that Run started, whose
\* inbox holds a message
C15_Witness ==
    /\ proc # NoProc
    /\ Len(stdin[proc]) = 2
    /\ stdin[proc][1].command = "Run"
    /\ stdin[proc][2].command = "cd"
    /\ Inbox # <<>>

\* a step of the error reader r
ErrSteps(r) == ereaders[r].pc # "unborn" /\ ereaders'[r] # ereaders[r]

\* C16: the error reader has no effect the consumer can see: no step it
\* takes for a line of stderr (or for the end of stderr) changes the inbox,
\* the state or the working directory.
C16_ErrorReaderInvisible ==
    [][\A r \in Gens :
         ErrSteps(r) => UNCHANGED <<message_queue, state, cwd, fetched>>
      ]_vars

\* an error reader holds a line it has just read, while the inbox holds a
\* message and the state is waiting_toplevel_command
C16_Witness ==
    \E r \in Gens :
        /\ ereaders[r].pc = "debug"
        /\ ereaders[r].line = "Traceback"
        /\ Inbox # <<>>
        /\ state = "waiting_toplevel_command"

\* C17: a reader holds the lock only while it appends and sets the state,
\* never while it waits for a line; so every send_command call that waits
\* for the lock gets it and comes to its end.
C17_SendCompletes ==
    /\ [](\A r \in Gens : lock = ReaderId(r) => readers[r].pc = "locked")
    /\ \A c \in UIThread : (cpc[c] = "lock") ~> (cpc[c] = "idle")

\* send_command waits for the lock while a reader holds it for its append
C17_Witness ==
    \E c \in UIThread, r \in Gens :
        /\ cpc[c] = "lock"
        /\ lock = ReaderId(r)
        /\ readers[r].pc = "locked"

C19_StateImpliesWorker ==
    /\ lock = 0 => (state # "None" => proc # NoProc /\ message_queue.exists)
    /\ \A c \in Callers : cpc[c] = "write" => proc # NoProc

\* a step in which a line reaches the stdin of a process
Delivers == stdin' # stdin

\* C20: every command line goes to the stdin of the process that is current
\* when it is written, which is alive (never a killed one); the first line a
\* process receives is the command that started it, also with two threads
\* calling send_command at once.
C20_LineToCurrentWorker ==
    [][/\ Delivers =>
            /\ proc # NoProc /\ procStatus[proc] = "alive"
            /\ \E c \in Callers :
                 /\ cpc[c] = "flush" /\ lock = c
                 /\ stdin' = [stdin EXCEPT ![proc] = Append(@, ccmd[c])]
                 /\ Restarts(ccmd[c]) =>
                      /\ stdin[proc] = <<>>
                      /\ origin[proc].cmd = ccmd[c]
       /\ \A g \in Gens : stdin'[g] # <<>> => stdin'[g][1] = origin[g].cmd
      ]_vars

\* both threads have sent a restarting command, each to the process it
\* started; the first process was killed after it got its line
C20_Witness ==
    /\ proc = MaxGen
    /\ \A g \in Gens : Len(stdin[g]) = 1 /\ Restarts(stdin[g][1])
    /\ procStatus[1] = "killed"
    /\ \A c \in Callers : cpc[c] = "idle" /\ cerr[c] = "none"

====
